---- MODULE Spec2Model ----
(***************************************************************************)
(* Model of the EWB indexer (EWBSolrClient over SolrClient), the Solr       *)
(* engine state it mutates, and the payload encoder Model.sum_up_to.        *)
(*                                                                         *)
(* Spec     : the ingestion operations index_corpus, delete_corpus,         *)
(*            index_model and delete_model, one engine request per step,    *)
(*            calls issued one at a time, each request free to fail.        *)
(* SpecSum  : Model.sum_up_to and get_doc_str_rpr on bounded input vectors. *)
(* SpecPair : two workers running index_corpus and index_model at once.     *)
(* SpecDisk : index_corpus and index_model over the files they may find.    *)
(* SpecQuery: do_Q1, do_Q4, do_Q5, do_Q9 next to the ingestion.             *)
(* SpecRows : custom_start_and_rows with its do_Q3 next to the ingestion.   *)
(* SpecResp : SolrResp.from_requests_response over the engine's replies.    *)
(* SpecScore, SpecRank : score normalisation and ranking of do_Q5, do_Q12.  *)
(* SpecBatch: the batching loop of SolrClient.index_documents.              *)
(***************************************************************************)
EXTENDS Integers, Sequences, FiniteSets, TLC

VARIABLES
    colls,      \* names of the collections that exist in the engine
    schema,     \* collection name -> set of field names of its schema
    registry,   \* documents of the registry collection (self.corpus_col)
    hasDocs,    \* collections that received their document batch
    doctpc,     \* <<collection, doc id, field>> with a non-empty payload
    fold,       \* engine configuration: corpus_name matches ignoring case
    call,       \* worker -> the ingestion call it runs (position and locals)
    ncalls,     \* calls started so far
    nfail,      \* engine failures injected so far
    sv,         \* sum_up_to: numerators of the input vector (v_i = sv[i] / sd)
    sd,         \* sum_up_to: common denominator of the input vector
    smax,       \* sum_up_to: max_sum
    sx,         \* sum_up_to: the integer vector x
    spc,        \* sum_up_to: position ("off", "loop", "done", "raised")
    disk,       \* the files the calls read: manifest and model folder
    fin,        \* the argument of the function under evaluation
    fout        \* its result

vars == <<colls, schema, registry, hasDocs, doctpc, fold, call, ncalls,
          nfail, sv, sd, smax, sx, spc, disk, fin, fout>>

engineVars == <<colls, schema, registry, hasDocs, doctpc, fold>>
sumVars == <<sv, sd, smax, sx, spc>>
auxVars == <<disk, fin, fout>>

(***************************************************************************)
(* Bounds of the model.                                                    *)
(***************************************************************************)
MaxCalls == 5
MaxFailures == 1
MaxLen == 3
MaxDenom == 5
MaxScale == 3

(***************************************************************************)
(* Names.  Paths are represented by their stems.                           *)
(***************************************************************************)
CorpusStems == {"Cordis", "101"}
ModelStems == {"lda-10", "Mallet-25", "nmf-5"}
DocIds == {"d1", "d2"}
Workers == {1}

\* str.lower() on the names of the model
Lower(s) ==
    CASE s = "Cordis" -> "cordis"
      [] s = "Mallet-25" -> "mallet-25"
      [] OTHER -> s

\* str.title() on the names of the model
Title(s) ==
    CASE s = "cordis" -> "Cordis"
      [] s = "Cordis" -> "Cordis"
      [] OTHER -> s

\* stem of the file that trainconfig.json names under TrDtSet
TrDtSet(m) ==
    CASE m = "lda-10" -> "101"
      [] m = "Mallet-25" -> "101"
      [] OTHER -> "Cordis"

corpus_col == "Corpora"

\* columns of a corpus data file, as Corpus.fields lists them
CorpusFields == <<"id", "title">>

\* fields of the configset every collection is created with
ConfigFields == {"id", "title"}

DoctpcKey(name) == "doctpc_" \o name
SimKey(name) == "sim_" \o name


CollNames ==
    {Lower(p) : p \in CorpusStems}
        \cup {Title(TrDtSet(m)) : m \in ModelStems}
        \cup {Lower(m) : m \in ModelStems}
        \cup {corpus_col}

(***************************************************************************)
(* The engine.                                                             *)
(***************************************************************************)
\* one registry document; a field without values is absent from query results
RegDoc(id, name, fields, models) ==
    [id |-> id, corpus_name |-> name, fields |-> fields, models |-> models]

RemoveAll(seq, v) == SelectSeq(seq, LAMBDA x : x # v)

Count(seq, v) == Cardinality({i \in 1..Len(seq) : seq[i] = v})

Range(seq) == {seq[i] : i \in 1..Len(seq)}

\* documents of the registry that the query corpus_name:<q> returns
RegMatch(q) ==
    {r \in registry :
        IF fold THEN Lower(r.corpus_name) = Lower(q) ELSE r.corpus_name = q}

\* the registry documents whose corpus_name is name
RegMatchExact(name) == {r \in registry : r.corpus_name = name}

\* the document that q=*:*, sort="id desc", rows="1" returns first
LastRegDoc == CHOOSE r \in registry : \A o \in registry : o.id <= r.id

\* POST {"create": ...}: the engine refuses a name that exists
CreateColls(name) == colls \cup {name}

CreateSchema(name) ==
    IF name \in colls THEN schema ELSE [schema EXCEPT ![name] = ConfigFields]

\* action=DELETE: the collection goes with its schema and documents
DeleteSchema(name) == [schema EXCEPT ![name] = {}]

DeleteDoctpc(name) == {t \in doctpc : t[1] # name}

\* overwrite=true on the uniqueKey id
PutRegDoc(doc) == {r \in registry : r.id # doc.id} \cup {doc}

\* an update that sets fields and models of the document id to the one value
SetInRegDoc(id, field, model) ==
    {IF r.id = id
        THEN [r EXCEPT !.fields = <<field>>, !.models = <<model>>]
        ELSE r : r \in registry}

\* atomic update {"add": v} on fields and models of the document id
AddToRegDoc(id, field, model) ==
    {IF r.id = id
        THEN [r EXCEPT !.fields = Append(@, field), !.models = Append(@, model)]
        ELSE r : r \in registry}

\* atomic update {"remove": v} on fields and models of the document id
RemoveFromRegDoc(id, field, model) ==
    {IF r.id = id
        THEN [r EXCEPT !.fields = RemoveAll(@, field),
                       !.models = RemoveAll(@, model)]
        ELSE r : r \in registry}

\* schema API add-field: refused when the collection is missing or has the field
AddFieldToSchema(col_name, field_name) ==
    IF col_name \in colls
        THEN [schema EXCEPT ![col_name] = @ \cup {field_name}]
        ELSE schema

\* schema API delete-field
DeleteFieldFromSchema(col_name, field_name) ==
    IF col_name \in colls
        THEN [schema EXCEPT ![col_name] = @ \ {field_name}]
        ELSE schema

\* an update batch naming field is accepted when the collection has the field
AcceptsUpdate(col_name, field_name) ==
    col_name \in colls /\ field_name \in schema[col_name]

(***************************************************************************)
(* Calls.                                                                  *)
(***************************************************************************)
Ended == {"idle", "returned", "raised"}

\* the call sent its last request of index_model, the topics of the model
RanToEnd(c) ==
    /\ c.pc = "returned"
    /\ \E i \in 1..Len(c.sent) : c.sent[i].what = "topics"

\* the corpus of manifest stem p is indexed: its collection exists and the
\* registry holds one document for it
Indexed(p) ==
    /\ Lower(p) \in colls
    /\ Cardinality(RegMatchExact(Lower(p))) = 1

\* call c is a delete_model that dropped the model collection and ended
\* before its registry update
Stopped(c) ==
    /\ c.op = "delete_model"
    /\ c.pc \in {"returned", "raised"}
    /\ Len(c.sent) >= 2
    /\ \A i \in 1..Len(c.sent) : c.sent[i].verb # "update"

\* the model of the stopped delete_model last, when the registry still lists
\* it for the corpus of stem p and it has no collection
Dangling(p, last) ==
    {m \in UNION {Range(r.models) : r \in RegMatchExact(Lower(p))} :
        Stopped(last) /\ m = last.arg /\ m \notin colls}

\* What a call remembers of the state it started in.
\*   indexed : the corpus the call names (for a model call, the corpus the
\*             model was trained on) was indexed
\*   gone    : delete_corpus: the model listed for the corpus whose
\*             collection the delete_model right before dropped
\*   known   : registry is the registry before index_model; delete_model takes
\*             it over from the index_model of the same model that ran to its
\*             end, without a failure, right before it
\*   emptied : index_corpus: the delete_corpus of the same corpus right before
\*             left the registry collection without a document and the corpus
\*             without a collection
\*   quiet   : index_model: no call was in progress when it started
\*   seq     : index_model: the number of calls started before it
NoPre ==
    [indexed |-> FALSE, gone |-> {}, known |-> FALSE, registry |-> {},
     emptied |-> FALSE, quiet |-> FALSE, seq |-> 0]

\* the registry collection exists and is empty after the delete_corpus of p,
\* which dropped the corpus collection and went on to the registry query
Emptied(p, last) ==
    /\ last.op = "delete_corpus"
    /\ last.arg = p
    /\ Len(last.sent) >= 2
    /\ corpus_col \in colls
    /\ registry = {}
    /\ Lower(p) \notin colls

PreOf(op, arg, last) ==
    CASE op = "index_corpus" ->
            [NoPre EXCEPT !.indexed = Indexed(arg),
                          !.emptied = Emptied(arg, last)]
      [] op = "delete_corpus" ->
            [NoPre EXCEPT !.indexed = Indexed(arg), !.gone = Dangling(arg, last)]
      [] op = "index_model" ->
            [NoPre EXCEPT !.indexed = Indexed(TrDtSet(arg)),
                          !.known = TRUE, !.registry = registry,
                          !.quiet = \A v \in DOMAIN call : call[v].pc \in Ended,
                          !.seq = ncalls]
      [] OTHER ->
            IF /\ last.op = "index_model"
               /\ last.arg = arg
               /\ last.clean
               /\ RanToEnd(last)
            THEN last.pre
            ELSE NoPre

\* col is the corpus_col argument of a query, ret what the call returns
NoCall ==
    [op |-> "none", arg |-> "", pc |-> "idle", rid |-> 0, todo |-> <<>>,
     clean |-> TRUE, sent |-> <<>>, pre |-> NoPre, col |-> "", ret |-> "None"]

NewCall(op, arg, pc, last) ==
    [op |-> op, arg |-> arg, pc |-> pc, rid |-> 0, todo |-> <<>>,
     clean |-> TRUE, sent |-> <<>>, pre |-> PreOf(op, arg, last),
     col |-> "", ret |-> "None"]

Request(verb, coll, what) == [verb |-> verb, coll |-> coll, what |-> what]

\* what the engine does with one request: it answers 200 and applies it,
\* answers with an error status and applies nothing, or the request times out
Outcomes == IF nfail < MaxFailures THEN {"ok", "error", "timeout"} ELSE {"ok"}

Failed(o) == nfail' = IF o = "ok" THEN nfail ELSE nfail + 1

\* requests.get / requests.post raise on a timeout: the call ends there
After(c, req, o) ==
    [c EXCEPT !.sent = Append(@, req),
              !.clean = @ /\ o = "ok",
              !.pc = IF o = "timeout" THEN "raised" ELSE @]

Start(w, op, arg, pc) ==
    /\ call[w].pc \in Ended
    /\ ncalls < MaxCalls
    /\ ncalls' = ncalls + 1
    /\ call' = [call EXCEPT ![w] = NewCall(op, arg, pc, call[w])]
    /\ UNCHANGED <<engineVars, nfail, sumVars, auxVars>>

At(w, op, pc) == call[w].op = op /\ call[w].pc = pc


\* a create_collection that never answers 409
AlreadyExistsNever(col_name, o) == FALSE

\* create_collection: list_collections answered and names col_name (status 409)
AlreadyExists(col_name, o) == o = "ok" /\ col_name \in colls

\* the engine part of one step: the request is applied only when answered ok
Engine(o, c, s, r, h, d) ==
    /\ colls' = IF o = "ok" THEN c ELSE colls
    /\ schema' = IF o = "ok" THEN s ELSE schema
    /\ registry' = IF o = "ok" THEN r ELSE registry
    /\ hasDocs' = IF o = "ok" THEN h ELSE hasDocs
    /\ doctpc' = IF o = "ok" THEN d ELSE doctpc
    /\ UNCHANGED fold

\* a step of the call that sends no request
Skips(w, pc) ==
    /\ call' = [call EXCEPT ![w].pc = pc]
    /\ UNCHANGED <<engineVars, ncalls, nfail, sumVars, auxVars>>

\* the call part of one step
Moves(w, pc, req, o) ==
    /\ call' = [call EXCEPT ![w] = After([call[w] EXCEPT !.pc = pc], req, o)]
    /\ Failed(o)
    /\ UNCHANGED <<ncalls, sumVars, auxVars>>

(***************************************************************************)
(* index_corpus                                                            *)
(***************************************************************************)
StartIndexCorpus(w) ==
    \E p \in CorpusStems : Start(w, "index_corpus", p, "ic_list")

\* step 2, create_collection(corpus_logical_name): list_collections
IndexCorpusList(w) ==
    /\ At(w, "index_corpus", "ic_list")
    /\ \E o \in Outcomes :
        LET name == Lower(call[w].arg) IN
        /\ Moves(w, IF AlreadyExists(name, o) THEN "returned" ELSE "ic_create",
                 Request("list", "", ""), o)
        /\ UNCHANGED engineVars

\* step 2, create_collection(corpus_logical_name): the create request;
\* every status but 409 lets index_corpus go on
IndexCorpusCreate(w) ==
    /\ At(w, "index_corpus", "ic_create")
    /\ \E o \in Outcomes :
        LET name == Lower(call[w].arg) IN
        /\ Moves(w, "ic_rlist", Request("create", name, ""), o)
        /\ Engine(o, CreateColls(name), CreateSchema(name), registry,
                  hasDocs, doctpc)

\* step 3, create_collection(self.corpus_col): list_collections
IndexCorpusRegList(w) ==
    /\ At(w, "index_corpus", "ic_rlist")
    /\ \E o \in Outcomes :
        /\ Moves(w, IF AlreadyExists(corpus_col, o) THEN "ic_maxid"
                    ELSE "ic_rcreate",
                 Request("list", "", ""), o)
        /\ UNCHANGED engineVars

\* step 3, create_collection(self.corpus_col): the create request; corpus_id = 1
IndexCorpusRegCreate(w) ==
    /\ At(w, "index_corpus", "ic_rcreate")
    /\ \E o \in Outcomes :
        /\ call' = [call EXCEPT ![w] =
                After([call[w] EXCEPT !.pc = "ic_reg", !.rid = 1],
                      Request("create", corpus_col, ""), o)]
        /\ Failed(o)
        /\ UNCHANGED <<ncalls, sumVars, auxVars>>
        /\ Engine(o, CreateColls(corpus_col), CreateSchema(corpus_col),
                  registry, hasDocs, doctpc)

\* step 3.1, the query for the last id: results.docs[0]["id"] + 1.
\* A missing collection or an empty result raises; sc != 200 returns.
IndexCorpusMaxId(w) ==
    /\ At(w, "index_corpus", "ic_maxid")
    /\ \E o \in Outcomes :
        LET found == o = "ok" /\ corpus_col \in colls /\ registry # {}
            pc == IF o = "error" THEN "returned"
                  ELSE IF found THEN "ic_reg" ELSE "raised"
            id == IF found THEN LastRegDoc.id + 1 ELSE 0
        IN
        /\ call' = [call EXCEPT ![w] =
                After([call[w] EXCEPT !.pc = pc, !.rid = id],
                      Request("select", corpus_col, "id"), o)]
        /\ Failed(o)
        /\ UNCHANGED <<ncalls, sumVars, auxVars>>
        /\ UNCHANGED engineVars

\* Corpus.get_docs_raw_info: None for a manifest of more than one dataset,
\* else the documents of the dataset
get_docs_raw_info == IF disk.dtsets > 1 THEN "None" ELSE "docs"

\* Corpus.fields: set by get_docs_raw_info once it has read the dataset
self_fields == IF get_docs_raw_info = "None" THEN <<>> ELSE CorpusFields

\* Corpus.get_corpora_update: the registry document of the corpus
get_corpora_update(name, id) == RegDoc(id, name, self_fields, <<>>)

\* steps 4 and 5, index_documents(corpus_col_upt, self.corpus_col)
IndexCorpusReg(w) ==
    /\ At(w, "index_corpus", "ic_reg")
    /\ \E o \in Outcomes :
        LET name == Lower(call[w].arg)
            doc == get_corpora_update(name, call[w].rid)
        IN
        /\ Moves(w, "ic_docs", Request("update", corpus_col, name), o)
        /\ Engine(o, colls, schema,
                  IF corpus_col \in colls THEN PutRegDoc(doc) ELSE registry,
                  hasDocs, doctpc)

\* step 6, index_documents(json_docs, corpus_logical_name); len(json_docs)
\* raises TypeError when get_docs_raw_info returned None
IndexCorpusDocs(w) ==
    /\ At(w, "index_corpus", "ic_docs")
    /\ IF get_docs_raw_info = "None"
        THEN Skips(w, "raised")
        ELSE \E o \in Outcomes :
            LET name == Lower(call[w].arg) IN
            /\ Moves(w, "returned", Request("update", name, "docs"), o)
            /\ Engine(o, colls, schema, registry,
                      IF name \in colls THEN hasDocs \cup {name} ELSE hasDocs,
                      doctpc)

(***************************************************************************)
(* delete_corpus                                                           *)
(***************************************************************************)
StartDeleteCorpus(w) ==
    \E p \in CorpusStems : Start(w, "delete_corpus", p, "dc_del")

\* delete_collection answers 200 only for a collection that exists
Deleted(col_name, o) == o = "ok" /\ col_name \in colls

\* a delete that takes the registry document of the collection with it
DeleteCollectionAndRegDoc(o, col_name) ==
    IF col_name \in colls
        THEN Engine(o, colls \ {col_name}, DeleteSchema(col_name),
                    {r \in registry : r.corpus_name # col_name},
                    hasDocs \ {col_name}, DeleteDoctpc(col_name))
        ELSE UNCHANGED engineVars

\* the engine state once col_name is deleted
DeleteCollection(o, col_name) ==
    IF col_name \in colls
        THEN Engine(o, colls \ {col_name}, DeleteSchema(col_name), registry,
                    hasDocs \ {col_name}, DeleteDoctpc(col_name))
        ELSE UNCHANGED engineVars

\* step 2, delete_collection(corpus_logical_name); sc != 200 returns
DeleteCorpusCollection(w) ==
    /\ At(w, "delete_corpus", "dc_del")
    /\ \E o \in Outcomes :
        LET name == Lower(call[w].arg) IN
        /\ Moves(w, IF Deleted(name, o) THEN "dc_query" ELSE "returned",
                 Request("delete", name, ""), o)
        /\ DeleteCollection(o, name)

\* step 3, the query for id and models of the corpus: sc != 200 returns;
\* results.docs[0] raises on an empty result, and ["models"] on a document
\* that has no models
DeleteCorpusQuery(w) ==
    /\ At(w, "delete_corpus", "dc_query")
    /\ \E o \in Outcomes :
        LET name == Lower(call[w].arg)
            docs == IF o = "ok" /\ corpus_col \in colls THEN RegMatch(name)
                    ELSE {}
            req == Request("select", corpus_col, name)
        IN
        /\ IF o = "error"
            THEN call' = [call EXCEPT ![w] =
                    After([call[w] EXCEPT !.pc = "returned"], req, o)]
            ELSE IF docs = {}
            THEN call' = [call EXCEPT ![w] =
                    After([call[w] EXCEPT !.pc = "raised"], req, o)]
            ELSE \E r \in docs :
                call' = [call EXCEPT ![w] =
                    After([call[w] EXCEPT
                              !.pc = IF r.models = <<>> THEN "raised"
                                     ELSE "dc_models",
                              !.rid = r.id, !.todo = r.models], req, o)]
        /\ Failed(o)
        /\ UNCHANGED <<ncalls, sumVars, auxVars>>
        /\ UNCHANGED engineVars

\* step 4, delete_collection(model) for the next model of the list
DeleteCorpusModel(w) ==
    /\ At(w, "delete_corpus", "dc_models")
    /\ \E o \in Outcomes :
        LET model == Head(call[w].todo)
            rest == Tail(call[w].todo)
            pc == IF ~Deleted(model, o) THEN "returned"
                  ELSE IF rest = <<>> THEN "dc_byid" ELSE "dc_models"
        IN
        /\ call' = [call EXCEPT ![w] =
                After([call[w] EXCEPT !.pc = pc, !.todo = rest],
                      Request("delete", model, ""), o)]
        /\ Failed(o)
        /\ UNCHANGED <<ncalls, sumVars, auxVars>>
        /\ DeleteCollection(o, model)


\* delete_doc_by_id builds "<delete><query>(id:" + id + ")</query></delete>":
\* with the int id of a registry document the concatenation raises TypeError
\* and no request is sent
DeleteByIdQuery(id) == IF id \in Int THEN "TypeError" ELSE "query"

\* step 5, delete_doc_by_id(self.corpus_col, results.docs[0]["id"])
DeleteCorpusRegDoc(w) ==
    /\ At(w, "delete_corpus", "dc_byid")
    /\ IF DeleteByIdQuery(call[w].rid) = "TypeError"
        THEN /\ call' = [call EXCEPT ![w].pc = "raised"]
             /\ UNCHANGED <<engineVars, nfail>>
        ELSE \E o \in Outcomes :
             /\ call' = [call EXCEPT ![w] =
                    After([call[w] EXCEPT !.pc = "returned"],
                          Request("delete-doc", corpus_col, ""), o)]
             /\ Failed(o)
             /\ Engine(o, colls, schema,
                       {r \in registry : r.id # call[w].rid}, hasDocs, doctpc)
    /\ UNCHANGED <<ncalls, sumVars, auxVars>>

(***************************************************************************)
(* index_model                                                             *)
(***************************************************************************)
StartIndexModel(w) ==
    \E m \in ModelStems : Start(w, "index_model", m, "im_list")

\* Model.get_model_info_update: self.corpus_name
ModelCorpusName(m) == Title(TrDtSet(m))

\* index_model / delete_model: model_name
ModelName(m) == Lower(m)

\* Model.__init__: self.name = path_to_model.stem
ModelSelfName(m) == m

\* step 2, create_collection(model_name): list_collections
IndexModelList(w) ==
    /\ At(w, "index_model", "im_list")
    /\ \E o \in Outcomes :
        LET model_name == ModelName(call[w].arg) IN
        /\ Moves(w, IF AlreadyExists(model_name, o) THEN "returned"
                    ELSE "im_create",
                 Request("list", "", ""), o)
        /\ UNCHANGED engineVars

\* step 2, create_collection(model_name): the create request
IndexModelCreate(w) ==
    /\ At(w, "index_model", "im_create")
    /\ \E o \in Outcomes :
        LET model_name == ModelName(call[w].arg) IN
        /\ Moves(w, "im_query", Request("create", model_name, ""), o)
        /\ Engine(o, CreateColls(model_name), CreateSchema(model_name),
                  registry, hasDocs, doctpc)

\* step 3 of index_model and delete_model: the query for the id of the corpus;
\* sc != 200 returns and results.docs[0] raises on an empty result
RegistryLookup(w, nextpc) ==
    \E o \in Outcomes :
        LET corpus_name == ModelCorpusName(call[w].arg)
            docs == IF o = "ok" /\ corpus_col \in colls
                    THEN RegMatch(corpus_name) ELSE {}
            req == Request("select", corpus_col, corpus_name)
        IN
        /\ IF o = "error"
            THEN call' = [call EXCEPT ![w] =
                    After([call[w] EXCEPT !.pc = "returned"], req, o)]
            ELSE IF docs = {}
            THEN call' = [call EXCEPT ![w] =
                    After([call[w] EXCEPT !.pc = "raised"], req, o)]
            ELSE \E r \in docs :
                call' = [call EXCEPT ![w] =
                    After([call[w] EXCEPT !.pc = nextpc, !.rid = r.id], req, o)]
        /\ Failed(o)
        /\ UNCHANGED <<ncalls, sumVars, auxVars>>
        /\ UNCHANGED engineVars

IndexModelQuery(w) ==
    /\ At(w, "index_model", "im_query")
    /\ RegistryLookup(w, "im_reg")

\* step 4, index_documents(field_update, self.corpus_col) with
\* get_corpora_model_update(id, 'add')
IndexModelReg(w) ==
    /\ At(w, "index_model", "im_reg")
    /\ \E o \in Outcomes :
        LET name == ModelSelfName(call[w].arg) IN
        /\ Moves(w, "im_doctpc_field", Request("update", corpus_col, name), o)
        /\ Engine(o, colls, schema,
                  IF corpus_col \in colls
                      THEN AddToRegDoc(call[w].rid, DoctpcKey(name), name)
                      ELSE registry,
                  hasDocs, doctpc)

\* step 5 with the sim field added in the place of the doctpc field
IndexModelSimFieldFirst(w) ==
    /\ At(w, "index_model", "im_doctpc_field")
    /\ \E o \in Outcomes :
        LET corpus_name == ModelCorpusName(call[w].arg)
            sim_model_key == SimKey(ModelName(call[w].arg))
        IN
        /\ Moves(w, "im_sim_field",
                 Request("add-field", corpus_name, sim_model_key), o)
        /\ Engine(o, colls, AddFieldToSchema(corpus_name, sim_model_key),
                  registry, hasDocs, doctpc)

\* step 5, add_field_to_schema(corpus_name, 'doctpc_' + model_name); err unread
IndexModelDoctpcField(w) ==
    /\ At(w, "index_model", "im_doctpc_field")
    /\ \E o \in Outcomes :
        LET corpus_name == ModelCorpusName(call[w].arg)
            model_key == DoctpcKey(ModelName(call[w].arg))
        IN
        /\ Moves(w, "im_sim_field",
                 Request("add-field", corpus_name, model_key), o)
        /\ Engine(o, colls, AddFieldToSchema(corpus_name, model_key),
                  registry, hasDocs, doctpc)

\* step 5, add_field_to_schema(corpus_name, 'sim_' + model_name); err unread
IndexModelSimField(w) ==
    /\ At(w, "index_model", "im_sim_field")
    /\ \E o \in Outcomes :
        LET corpus_name == ModelCorpusName(call[w].arg)
            sim_model_key == SimKey(ModelName(call[w].arg))
        IN
        /\ Moves(w, "im_docs",
                 Request("add-field", corpus_name, sim_model_key), o)
        /\ Engine(o, colls, AddFieldToSchema(corpus_name, sim_model_key),
                  registry, hasDocs, doctpc)

\* Model.get_model_info_update: the ids of the update records,
\* list(zip(ids_corpus, doc_tpc_rpr)): zip stops at the shorter of the two
get_model_info_update ==
    LET n == IF Len(disk.ids) < disk.rows THEN Len(disk.ids) ELSE disk.rows
    IN  SubSeq(disk.ids, 1, n)

\* step 6, index_documents(json_docs, corpus_name): {id, doctpc_<name>: {set: ..}};
\* index_documents sends nothing for an empty list
IndexModelDocs(w) ==
    /\ At(w, "index_model", "im_docs")
    /\ IF get_model_info_update = <<>>
        THEN Skips(w, "im_tpcs")
        ELSE \E o \in Outcomes :
            LET corpus_name == ModelCorpusName(call[w].arg)
                model_key == DoctpcKey(ModelSelfName(call[w].arg))
            IN
            /\ Moves(w, "im_tpcs",
                     Request("update", corpus_name, model_key), o)
            /\ Engine(o, colls, schema, registry, hasDocs,
                      IF AcceptsUpdate(corpus_name, model_key)
                          THEN doctpc \cup
                               {<<corpus_name, d, model_key>> :
                                    d \in Range(get_model_info_update)}
                          ELSE doctpc)

\* step 6, index_documents(json_tpcs, model_name)
IndexModelTopics(w) ==
    /\ At(w, "index_model", "im_tpcs")
    /\ \E o \in Outcomes :
        LET model_name == ModelName(call[w].arg) IN
        /\ Moves(w, "returned", Request("update", model_name, "topics"), o)
        /\ Engine(o, colls, schema, registry,
                  IF model_name \in colls THEN hasDocs \cup {model_name}
                      ELSE hasDocs,
                  doctpc)

(***************************************************************************)
(* delete_model                                                            *)
(***************************************************************************)
StartDeleteModel(w) ==
    \E m \in ModelStems : Start(w, "delete_model", m, "dm_del")

\* step 2, delete_collection(model_name); sc != 200 returns
DeleteModelCollection(w) ==
    /\ At(w, "delete_model", "dm_del")
    /\ \E o \in Outcomes :
        LET model_name == ModelName(call[w].arg) IN
        /\ Moves(w, IF Deleted(model_name, o) THEN "dm_query" ELSE "returned",
                 Request("delete", model_name, ""), o)
        /\ DeleteCollection(o, model_name)

DeleteModelQuery(w) ==
    /\ At(w, "delete_model", "dm_query")
    /\ RegistryLookup(w, "dm_reg")

\* step 4, index_documents(field_update, self.corpus_col) with
\* get_corpora_model_update(id, 'remove')
DeleteModelReg(w) ==
    /\ At(w, "delete_model", "dm_reg")
    /\ \E o \in Outcomes :
        LET name == ModelSelfName(call[w].arg) IN
        /\ Moves(w, "dm_docs", Request("update", corpus_col, name), o)
        /\ Engine(o, colls, schema,
                  IF corpus_col \in colls
                      THEN RemoveFromRegDoc(call[w].rid, DoctpcKey(name), name)
                      ELSE registry,
                  hasDocs, doctpc)

\* step 5, index_documents(json_docs, corpus_name): {id, doctpc_<name>: {set: []}}
DeleteModelDocs(w) ==
    /\ At(w, "delete_model", "dm_docs")
    /\ IF get_model_info_update = <<>>
        THEN Skips(w, "dm_doctpc_field")
        ELSE \E o \in Outcomes :
            LET corpus_name == ModelCorpusName(call[w].arg)
                model_key == DoctpcKey(ModelSelfName(call[w].arg))
            IN
            /\ Moves(w, "dm_doctpc_field",
                     Request("update", corpus_name, model_key), o)
            /\ Engine(o, colls, schema, registry, hasDocs,
                      IF AcceptsUpdate(corpus_name, model_key)
                          THEN doctpc \
                               {<<corpus_name, d, model_key>> :
                                    d \in Range(get_model_info_update)}
                          ELSE doctpc)

\* step 6, delete_field_from_schema(corpus_name, 'doctpc_' + model_name)
DeleteModelDoctpcField(w) ==
    /\ At(w, "delete_model", "dm_doctpc_field")
    /\ \E o \in Outcomes :
        LET corpus_name == ModelCorpusName(call[w].arg)
            model_key == DoctpcKey(ModelName(call[w].arg))
        IN
        /\ Moves(w, "dm_sim_field",
                 Request("delete-field", corpus_name, model_key), o)
        /\ Engine(o, colls, DeleteFieldFromSchema(corpus_name, model_key),
                  registry, hasDocs, doctpc)

\* step 6, delete_field_from_schema(corpus_name, 'sim_' + model_name)
DeleteModelSimField(w) ==
    /\ At(w, "delete_model", "dm_sim_field")
    /\ \E o \in Outcomes :
        LET corpus_name == ModelCorpusName(call[w].arg)
            sim_model_key == SimKey(ModelName(call[w].arg))
        IN
        /\ Moves(w, "returned",
                 Request("delete-field", corpus_name, sim_model_key), o)
        /\ Engine(o, colls, DeleteFieldFromSchema(corpus_name, sim_model_key),
                  registry, hasDocs, doctpc)

(***************************************************************************)
(* The ingestion specification.                                            *)
(***************************************************************************)
SumOff ==
    /\ sv = <<>>
    /\ sd = 1
    /\ smax = 1
    /\ sx = <<>>
    /\ spc = "off"

(***************************************************************************)
(* The queries that name a corpus collection and a model: do_Q1, do_Q4,     *)
(* do_Q5, do_Q9.  start and rows are given.                                 *)
(***************************************************************************)
QueryOps == {"do_Q1", "do_Q4", "do_Q5", "do_Q9"}

\* step 0: corpus_col.lower(), model_name.lower()
StartQuery(w) ==
    /\ call[w].pc \in Ended
    /\ ncalls < MaxCalls
    /\ ncalls' = ncalls + 1
    /\ \E op \in QueryOps, c \in CorpusStems, m \in ModelStems :
        call' = [call EXCEPT ![w] =
                    [NewCall(op, Lower(m), "q_is_corpus", call[w])
                        EXCEPT !.col = Lower(c)]]
    /\ UNCHANGED <<engineVars, nfail, sumVars, auxVars>>

\* one select request of a query: nothing changes in the engine
Reads(w, pc, ret, req, o) ==
    /\ call' = [call EXCEPT ![w] =
                    After([call[w] EXCEPT !.pc = pc, !.ret = ret], req, o)]
    /\ Failed(o)
    /\ UNCHANGED <<engineVars, ncalls, sumVars, auxVars>>

\* check_is_corpus: list_corpus_collections returns None on sc != 200 and the
\* unpacking of None raises; False goes to refused
check_is_corpus(w, nextpc, refused) ==
    \E o \in Outcomes :
        LET answered == o = "ok" /\ corpus_col \in colls
            corpus_lst == {r.corpus_name : r \in registry}
        IN
        Reads(w,
              IF ~answered THEN "raised"
              ELSE IF call[w].col \in corpus_lst THEN nextpc ELSE refused,
              "None", Request("select", corpus_col, "*:*"), o)

\* check_corpus_has_model: get_corpus_coll_fields returns None on sc != 200,
\* results.docs[0]["fields"] raises without a document or without fields
check_corpus_has_model(w, nextpc, refused) ==
    \E o \in Outcomes :
        LET answered == o = "ok" /\ corpus_col \in colls
            docs == IF answered THEN RegMatch(call[w].col) ELSE {}
            req == Request("select", corpus_col, call[w].col)
        IN
        IF docs = {}
            THEN Reads(w, "raised", "None", req, o)
            ELSE \E r \in docs :
                Reads(w,
                      IF r.fields = <<>> THEN "raised"
                      ELSE IF DoctpcKey(call[w].arg) \in Range(r.fields)
                          THEN nextpc ELSE refused,
                      "None", req, o)

\* the step after the two checks of the query
AfterChecks(op) ==
    CASE op = "do_Q1" -> "q1_select"
      [] op = "do_Q5" -> "q1_is_corpus"
      [] OTHER -> "q_select"

\* step 1 of do_Q1, do_Q4, do_Q5, do_Q9: return without a value on False
QueryIsCorpus(w) ==
    /\ call[w].op \in QueryOps /\ call[w].pc = "q_is_corpus"
    /\ check_is_corpus(w, "q_has_model", "returned")

\* step 2
QueryHasModel(w) ==
    /\ call[w].op \in QueryOps /\ call[w].pc = "q_has_model"
    /\ check_corpus_has_model(w, AfterChecks(call[w].op), "returned")

\* do_Q5 step 3, do_Q1 steps 1 and 2: do_Q1 returning None makes the
\* unpacking in do_Q5 raise
QueryQ1IsCorpus(w) ==
    /\ call[w].op \in QueryOps /\ call[w].pc = "q1_is_corpus"
    /\ check_is_corpus(w, "q1_has_model", "raised")

QueryQ1HasModel(w) ==
    /\ call[w].op \in QueryOps /\ call[w].pc = "q1_has_model"
    /\ check_corpus_has_model(w, "q1_select", "raised")

\* do_Q1 step 3: the select for the document in the corpus collection, then
\* results.docs[0]['doctpc_' + model_name]
QueryQ1Select(w) ==
    /\ call[w].op \in QueryOps /\ call[w].pc = "q1_select"
    /\ \E o \in Outcomes, doc_id \in DocIds \cup {"d9"} :
        LET col == call[w].col
            inner == call[w].op = "do_Q5"
            found == col \in hasDocs /\ doc_id \in DocIds
            valued == <<col, doc_id, DoctpcKey(call[w].arg)>> \in doctpc
            req == Request("select", col, doc_id)
        IN
        IF o = "error"
            THEN Reads(w, IF inner THEN "raised" ELSE "returned", "None",
                       req, o)
        ELSE IF col \notin colls \/ ~found \/ ~valued
            THEN Reads(w, "raised", "None", req, o)
        ELSE IF inner
            THEN Reads(w, "q_select", "None", req, o)
            ELSE Reads(w, "returned", "docs", req, o)

\* the select of do_Q4, do_Q5, do_Q9 in the corpus collection
QuerySelect(w) ==
    /\ call[w].op \in QueryOps /\ call[w].pc = "q_select"
    /\ \E o \in Outcomes :
        LET col == call[w].col
            req == Request("select", col, call[w].arg)
        IN
        IF o = "error"
            THEN Reads(w, "returned", "None", req, o)
        ELSE IF col \notin colls
            THEN Reads(w, "raised", "None", req, o)
            ELSE Reads(w, "returned", "docs", req, o)

\* a manifest with one dataset, and a model folder whose corpus.txt and
\* thetas.npz both have one entry per document
OnDisk == [dtsets |-> 1, ids |-> <<"d1", "d2">>, rows |-> 2]

NoValue == [kind |-> "none"]

AuxOff ==
    /\ disk = OnDisk
    /\ fin = NoValue
    /\ fout = NoValue

Init ==
    /\ colls = {}
    /\ schema = [c \in CollNames |-> {}]
    /\ registry = {}
    /\ hasDocs = {}
    /\ doctpc = {}
    /\ fold \in BOOLEAN
    /\ call = [w \in Workers |-> NoCall]
    /\ ncalls = 0
    /\ nfail = 0
    /\ SumOff
    /\ AuxOff

Next ==
    \E w \in Workers :
        \/ StartIndexCorpus(w)
        \/ IndexCorpusList(w)
        \/ IndexCorpusCreate(w)
        \/ IndexCorpusRegList(w)
        \/ IndexCorpusRegCreate(w)
        \/ IndexCorpusMaxId(w)
        \/ IndexCorpusReg(w)
        \/ IndexCorpusDocs(w)
        \/ StartDeleteCorpus(w)
        \/ DeleteCorpusCollection(w)
        \/ DeleteCorpusQuery(w)
        \/ DeleteCorpusModel(w)
        \/ DeleteCorpusRegDoc(w)
        \/ StartIndexModel(w)
        \/ IndexModelList(w)
        \/ IndexModelCreate(w)
        \/ IndexModelQuery(w)
        \/ IndexModelReg(w)
        \/ IndexModelDoctpcField(w)
        \/ IndexModelSimField(w)
        \/ IndexModelDocs(w)
        \/ IndexModelTopics(w)
        \/ StartDeleteModel(w)
        \/ DeleteModelCollection(w)
        \/ DeleteModelQuery(w)
        \/ DeleteModelReg(w)
        \/ DeleteModelDocs(w)
        \/ DeleteModelDoctpcField(w)
        \/ DeleteModelSimField(w)

Spec == Init /\ [][Next]_vars

(***************************************************************************)
(* Two clients of one engine: the index_corpus and index_model calls of two *)
(* requests of the REST API interleave request by request.                  *)
(***************************************************************************)
Pair == {1, 2}

\* the calls of a run of the pair
MaxPairCalls == 3

\* the engine answers every request of the pair: no failure is left to happen
InitPair ==
    /\ colls = {}
    /\ schema = [c \in CollNames |-> {}]
    /\ registry = {}
    /\ hasDocs = {}
    /\ doctpc = {}
    /\ fold \in BOOLEAN
    /\ call = [w \in Pair |-> NoCall]
    /\ ncalls = MaxCalls - MaxPairCalls
    /\ nfail = MaxFailures
    /\ SumOff
    /\ AuxOff

NextPair ==
    \E w \in Pair :
        \/ StartIndexCorpus(w)
        \/ IndexCorpusList(w)
        \/ IndexCorpusCreate(w)
        \/ IndexCorpusRegList(w)
        \/ IndexCorpusRegCreate(w)
        \/ IndexCorpusMaxId(w)
        \/ IndexCorpusReg(w)
        \/ IndexCorpusDocs(w)
        \/ StartIndexModel(w)
        \/ IndexModelList(w)
        \/ IndexModelCreate(w)
        \/ IndexModelQuery(w)
        \/ IndexModelReg(w)
        \/ IndexModelDoctpcField(w)
        \/ IndexModelSimField(w)
        \/ IndexModelDocs(w)
        \/ IndexModelTopics(w)

SpecPair == InitPair /\ [][NextPair]_vars

(***************************************************************************)
(* The queries next to index_corpus and index_model.                        *)
(***************************************************************************)
NextQuery ==
    \E w \in Workers :
        \/ StartIndexCorpus(w)
        \/ IndexCorpusList(w)
        \/ IndexCorpusCreate(w)
        \/ IndexCorpusRegList(w)
        \/ IndexCorpusRegCreate(w)
        \/ IndexCorpusMaxId(w)
        \/ IndexCorpusReg(w)
        \/ IndexCorpusDocs(w)
        \/ StartIndexModel(w)
        \/ IndexModelList(w)
        \/ IndexModelCreate(w)
        \/ IndexModelQuery(w)
        \/ IndexModelReg(w)
        \/ IndexModelDoctpcField(w)
        \/ IndexModelSimField(w)
        \/ IndexModelDocs(w)
        \/ IndexModelTopics(w)
        \/ StartQuery(w)
        \/ QueryIsCorpus(w)
        \/ QueryHasModel(w)
        \/ QueryQ1IsCorpus(w)
        \/ QueryQ1HasModel(w)
        \/ QueryQ1Select(w)
        \/ QuerySelect(w)

SpecQuery == Init /\ [][NextQuery]_vars

(***************************************************************************)
(* index_corpus and index_model over the files they may find: manifests of  *)
(* one or more datasets, model folders whose id list and doc-topic matrix   *)
(* may differ in length.  Every request is answered.                        *)
(***************************************************************************)
MaxDtsets == 2
MaxRows == 2

Disks ==
    [dtsets : 1..MaxDtsets,
     ids : {SubSeq(OnDisk.ids, 1, n) : n \in 0..Len(OnDisk.ids)},
     rows : 0..MaxRows]

InitDisk ==
    /\ colls = {}
    /\ schema = [c \in CollNames |-> {}]
    /\ registry = {}
    /\ hasDocs = {}
    /\ doctpc = {}
    /\ fold \in BOOLEAN
    /\ call = [w \in Workers |-> NoCall]
    /\ ncalls = 0
    /\ nfail = MaxFailures
    /\ SumOff
    /\ disk \in Disks
    /\ fin = NoValue
    /\ fout = NoValue

NextDisk ==
    \E w \in Workers :
        \/ StartIndexCorpus(w)
        \/ IndexCorpusList(w)
        \/ IndexCorpusCreate(w)
        \/ IndexCorpusRegList(w)
        \/ IndexCorpusRegCreate(w)
        \/ IndexCorpusMaxId(w)
        \/ IndexCorpusReg(w)
        \/ IndexCorpusDocs(w)
        \/ StartIndexModel(w)
        \/ IndexModelList(w)
        \/ IndexModelCreate(w)
        \/ IndexModelQuery(w)
        \/ IndexModelReg(w)
        \/ IndexModelDoctpcField(w)
        \/ IndexModelSimField(w)
        \/ IndexModelDocs(w)
        \/ IndexModelTopics(w)

SpecDisk == InitDisk /\ [][NextDisk]_vars


(***************************************************************************)
(* Model.sum_up_to and get_doc_str_rpr.  The vector is v_i = sv[i] / sd,    *)
(* so that vector * max_sum is computed exactly.                           *)
(***************************************************************************)
RECURSIVE SumSeq(_)
SumSeq(x) == IF x = <<>> THEN 0 ELSE Head(x) + SumSeq(Tail(x))

\* non-negative vectors of length 1..MaxLen over the denominator d that sum to 1
UnitVectors(d) ==
    {v \in UNION {[1..n -> 0..d] : n \in 1..MaxLen} : SumSeq(v) = d}

\* x = np.array(list(map(np.int_, vector*max_sum))).ravel()
Truncated(v, d, max_sum) == [i \in 1..Len(v) |-> (v[i] * max_sum) \div d]

\* pos_idx = list(np.where(x != 0)[0])
pos_idx(x) == {i \in 1..Len(x) : x[i] # 0}

\* while np.sum(x) != max_sum
KeepsLoopingBelow(x, max_sum) == SumSeq(x) < max_sum - 1

KeepsLooping(x, max_sum) == SumSeq(x) # max_sum

\* get_doc_str_rpr: the entries "t<idx>|<val>" of the payload, zeros left out
RECURSIVE Entries(_, _)
Entries(x, idx) ==
    IF x = <<>> THEN <<>>
    ELSE (IF Head(x) # 0 THEN <<[topic |-> idx, weight |-> Head(x)]>> ELSE <<>>)
            \o Entries(Tail(x), idx + 1)

get_doc_str_rpr(x) == Entries(x, 0)

Weights(rpr) == [i \in 1..Len(rpr) |-> rpr[i].weight]

IngestionOff ==
    /\ colls = {}
    /\ schema = [c \in CollNames |-> {}]
    /\ registry = {}
    /\ hasDocs = {}
    /\ doctpc = {}
    /\ fold = FALSE
    /\ call = [w \in Workers |-> NoCall]
    /\ ncalls = 0
    /\ nfail = 0

InitSum ==
    /\ IngestionOff
    /\ AuxOff
    /\ sd \in 1..MaxDenom
    /\ sv \in UnitVectors(sd)
    /\ smax \in 1..MaxScale
    /\ sx = <<>>
    /\ spc = "start"

\* line 73: the truncated products
SumTruncate ==
    /\ spc = "start"
    /\ sx' = Truncated(sv, sd, smax)
    /\ spc' = "loop"
    /\ UNCHANGED <<sv, sd, smax, engineVars, call, ncalls, nfail, auxVars>>

\* lines 75-77: one round of the loop; random.choice raises on an empty pos_idx
SumIncrement ==
    /\ spc = "loop"
    /\ KeepsLooping(sx, smax)
    /\ IF pos_idx(sx) = {}
        THEN sx' = sx /\ spc' = "raised"
        ELSE \E idx \in pos_idx(sx) :
                sx' = [sx EXCEPT ![idx] = @ + 1] /\ spc' = "loop"
    /\ UNCHANGED <<sv, sd, smax, engineVars, call, ncalls, nfail, auxVars>>

\* line 78: return x
SumReturn ==
    /\ spc = "loop"
    /\ ~KeepsLooping(sx, smax)
    /\ spc' = "done"
    /\ UNCHANGED <<sx, sv, sd, smax, engineVars, call, ncalls, nfail, auxVars>>

NextSum == SumTruncate \/ SumIncrement \/ SumReturn

SpecSum == InitSum /\ [][NextSum]_vars

(***************************************************************************)
(* C3.  Whenever sum_up_to returns, for a non-negative unit-sum vector and  *)
(* any scale, its result holds non-negative integers that sum to max_sum,  *)
(* and so do the weights of the payload get_doc_str_rpr builds from it.     *)
(***************************************************************************)
C3_PayloadSumsToScale ==
    spc = "done" =>
        /\ \A i \in 1..Len(sx) : sx[i] \in Nat
        /\ Len(sx) = Len(sv)
        /\ SumSeq(sx) = smax
        /\ SumSeq(Weights(get_doc_str_rpr(sx))) = smax

\* sum_up_to returned after the loop raised at least one truncated entry
C3_Witness ==
    /\ spc = "done"
    /\ SumSeq(Truncated(sv, sd, smax)) < smax
    /\ Len(get_doc_str_rpr(sx)) >= 2


(***************************************************************************)
(* Claims on the ingestion operations.                                     *)
(***************************************************************************)
Quiescent == \A w \in Workers : call[w].pc \in Ended

Over(w, op) == call[w].op = op /\ call[w].pc \in {"returned", "raised"}

ModelCollections == colls \cap {ModelName(m) : m \in ModelStems}

(***************************************************************************)
(* C1.  When no call is in progress, every model that a registry document   *)
(* lists in models has a collection of that name, and the corpus collection *)
(* of the document has the fields doctpc_<model> and sim_<model>.           *)
(***************************************************************************)
C1_ListedModelsExist ==
    Quiescent =>
        \A r \in registry : \A m \in Range(r.models) :
            /\ m \in colls
            /\ r.corpus_name \in colls
            /\ {DoctpcKey(m), SimKey(m)} \subseteq schema[r.corpus_name]

(***************************************************************************)
(* C2.  When no call is in progress, every model collection is listed in    *)
(* the models of exactly one registry document.                            *)
(***************************************************************************)
C2_ModelCollectionsListedOnce ==
    Quiescent =>
        \A m \in ModelCollections :
            Cardinality({r \in registry : m \in Range(r.models)}) = 1


(***************************************************************************)
(* C4.  Once delete_corpus(p) is over, having started with the corpus p     *)
(* indexed and with no engine failure in the run, the corpus collection is  *)
(* gone and the registry holds no document with that corpus_name.           *)
(***************************************************************************)
C4_DeleteCorpusRemovesAll ==
    \A w \in Workers :
        (Over(w, "delete_corpus") /\ call[w].pre.indexed /\ nfail = 0) =>
            /\ Lower(call[w].arg) \notin colls
            /\ RegMatchExact(Lower(call[w].arg)) = {}

(***************************************************************************)
(* C5.  index_corpus on a manifest whose corpus is already indexed, with    *)
(* its requests answered, gets 409 from create_collection and returns after *)
(* the collection listing alone: it sends no create and no update request,  *)
(* and the registry still holds exactly one document for the corpus.        *)
(***************************************************************************)
C5_SecondIndexCorpusStops ==
    \A w \in Workers :
        (Over(w, "index_corpus") /\ call[w].pre.indexed /\ call[w].clean) =>
            /\ call[w].pc = "returned"
            /\ \A i \in 1..Len(call[w].sent) : call[w].sent[i].verb = "list"
            /\ Len(call[w].sent) = 1
            /\ Cardinality(RegMatchExact(Lower(call[w].arg))) = 1

\* a second index_corpus of an indexed corpus has returned
C5_Witness ==
    \E w \in Workers :
        /\ Over(w, "index_corpus")
        /\ call[w].pre.indexed
        /\ call[w].clean
        /\ Lower(call[w].arg) \in hasDocs

(***************************************************************************)
(* C6.  Once index_model(m) is over, having started with the corpus the     *)
(* model was trained on indexed and with no engine failure in the run, the  *)
(* schema of the corpus collection has doctpc_<model> and sim_<model> and   *)
(* the registry document of the corpus lists the model exactly once (also   *)
(* when index_model(m) is repeated).                                       *)
(***************************************************************************)
C6_IndexModelEvolvesSchema ==
    \A w \in Workers :
        (Over(w, "index_model") /\ call[w].pre.indexed /\ nfail = 0) =>
            LET corpus == Lower(TrDtSet(call[w].arg))
                model == Lower(call[w].arg)
            IN
            /\ {DoctpcKey(model), SimKey(model)} \subseteq schema[corpus]
            /\ \A r \in RegMatchExact(corpus) : Count(r.models, model) = 1


\* delete_corpus is at the deletion of the registry document: every delete it
\* sent was answered 200, the corpus collection and the model collections of
\* the document are gone
C7_AtRegistryDeletion ==
    \A w \in Workers :
        At(w, "delete_corpus", "dc_byid") =>
            /\ call[w].clean
            /\ Lower(call[w].arg) \notin colls
            /\ \A r \in registry :
                r.id = call[w].rid => \A m \in Range(r.models) : m \notin colls
            /\ \A i \in 1..Len(call[w].sent) :
                call[w].sent[i].verb \in {"delete", "select"}

\* a step of delete_corpus that changes the registry is its last step
C7_RegistryChangesLast ==
    \A w \in Workers :
        (call[w].op = "delete_corpus" /\ call[w].pc \notin Ended
            /\ registry' # registry) => call[w].pc = "dc_byid"

(***************************************************************************)
(* C7.  delete_corpus reaches the deletion of the registry document only    *)
(* with the corpus collection and every model collection the document lists *)
(* deleted, each with status 200; no other step of delete_corpus changes    *)
(* the registry, so a call that a failed step ends leaves it as it was.     *)
(***************************************************************************)
C7_RegistryDeletedLast ==
    [](C7_AtRegistryDeletion) /\ [][C7_RegistryChangesLast]_vars

\* delete_corpus deleted the corpus collection, the deletion of a model
\* collection failed, and the registry document is still there
C7_Witness ==
    \E w \in Workers :
        /\ Over(w, "delete_corpus")
        /\ call[w].pre.indexed
        /\ ~call[w].clean
        /\ Len(call[w].sent) >= 3
        /\ Lower(call[w].arg) \notin colls
        /\ \E r \in RegMatchExact(Lower(call[w].arg)) : r.models # <<>>

(***************************************************************************)
(* C8.  delete_corpus of an indexed corpus whose registry document lists a  *)
(* model that has no collection any more, with its requests answered,      *)
(* removes the corpus collection and the registry document and sends no     *)
(* delete request for the model collection that is gone.                    *)
(***************************************************************************)
C8_DeleteCorpusAfterDroppedModel ==
    \A w \in Workers :
        (Over(w, "delete_corpus") /\ call[w].clean /\ call[w].pre.indexed
            /\ call[w].pre.gone # {}) =>
            /\ Lower(call[w].arg) \notin colls
            /\ RegMatchExact(Lower(call[w].arg)) = {}
            /\ \A i \in 1..Len(call[w].sent) :
                ~(/\ call[w].sent[i].verb = "delete"
                  /\ call[w].sent[i].coll \in call[w].pre.gone)

(***************************************************************************)
(* C9.  With no engine failure, once delete_model(m) has ended right after  *)
(* an index_model(m) that ran to its end, the registry documents of the     *)
(* corpus of m are as they were before                                      *)
(* index_model, the corpus schema has neither doctpc_<m> nor sim_<m>, no    *)
(* collection m exists, no document has a doctpc_<m> payload, and the       *)
(* update that empties doctpc_<m> was sent before the first field removal.  *)
(***************************************************************************)
C9_DeleteModelUndoesIndexModel ==
    \A w \in Workers :
        (Over(w, "delete_model") /\ call[w].pre.known /\ call[w].clean
            /\ nfail = 0) =>
            LET corpus == Lower(TrDtSet(call[w].arg))
                model == Lower(call[w].arg)
                sent == call[w].sent
            IN
            /\ RegMatchExact(corpus) =
                    {b \in call[w].pre.registry : b.corpus_name = corpus}
            /\ DoctpcKey(model) \notin schema[corpus]
            /\ SimKey(model) \notin schema[corpus]
            /\ model \notin colls
            /\ \A d \in DocIds : <<corpus, d, DoctpcKey(model)>> \notin doctpc
            /\ \E i \in 1..Len(sent) :
                /\ sent[i].verb = "update"
                /\ sent[i].what = DoctpcKey(ModelSelfName(call[w].arg))
                /\ \A k \in 1..i : sent[k].verb # "delete-field"
                /\ \E j \in (i + 1)..Len(sent) : sent[j].verb = "delete-field"

(***************************************************************************)
(* C10.  In every reachable state every field name in the fields of a       *)
(* registry document is a field of the schema of that corpus collection.    *)
(***************************************************************************)
C10_RegistryFieldsInSchema ==
    \A r \in registry : Range(r.fields) \subseteq schema[r.corpus_name]


\* the step of index_corpus that writes a registry document gives it the id 1
\* in an empty registry and the highest id plus one otherwise
C11_AssignsNextId ==
    \A w \in Workers :
        (At(w, "index_corpus", "ic_reg") /\ registry' # registry) =>
            \E r \in registry' \ registry :
                /\ r.id = call[w].rid
                /\ r.id = IF registry = {} THEN 1 ELSE LastRegDoc.id + 1
                /\ Cardinality(registry') = Cardinality(registry) + 1

\* no two registry documents share an id
C11_UniqueIds ==
    \A r1 \in registry : \A r2 \in registry : r1.id = r2.id => r1 = r2

(***************************************************************************)
(* C11.  In every run of index_corpus and delete_corpus calls, one at a     *)
(* time, no two registry documents share an id, and every registry         *)
(* document index_corpus writes gets the id 1 when the registry was just    *)
(* created and otherwise one more than the highest id in the registry.      *)
(***************************************************************************)
C11_IdsUniqueAndIncreasing ==
    [](C11_UniqueIds) /\ [][C11_AssignsNextId]_vars


(***************************************************************************)
(* C12.  An index_corpus(p) that starts right after delete_corpus(p), with  *)
(* the registry collection in place but holding no document and no         *)
(* collection for the corpus, and has its requests answered, returns with   *)
(* the corpus collection created and exactly one registry document for the  *)
(* corpus, with an id of at least 1.                                        *)
(***************************************************************************)
C12_ReindexAfterEmptiedRegistry ==
    \A w \in Workers :
        (Over(w, "index_corpus") /\ call[w].pre.emptied /\ call[w].clean) =>
            /\ call[w].pc = "returned"
            /\ Lower(call[w].arg) \in colls
            /\ Cardinality(RegMatchExact(Lower(call[w].arg))) = 1
            /\ \A r \in RegMatchExact(Lower(call[w].arg)) : r.id >= 1


\* index_corpus call c sent the documents of the corpus and returned
IndexedToEnd(c) ==
    /\ c.op = "index_corpus"
    /\ c.pc = "returned"
    /\ \E i \in 1..Len(c.sent) : c.sent[i].what = "docs"

(***************************************************************************)
(* C13.  When the two clients have each run index_corpus to its end, for    *)
(* two different corpora, under any interleaving of their requests, the     *)
(* registry holds a document for each corpus and the two ids differ.        *)
(***************************************************************************)
C13_ConcurrentIndexCorpusKeepBoth ==
    \A w1 \in Pair : \A w2 \in Pair :
        (/\ w1 # w2
         /\ IndexedToEnd(call[w1]) /\ IndexedToEnd(call[w2])
         /\ Lower(call[w1].arg) # Lower(call[w2].arg)) =>
            \E r1 \in RegMatchExact(Lower(call[w1].arg)) :
                \E r2 \in RegMatchExact(Lower(call[w2].arg)) : r1.id # r2.id

(***************************************************************************)
(* C14.  When the two clients have each run index_model to its end, for two *)
(* different models trained on the same indexed corpus, the first started   *)
(* with no call in progress and the second started next, under any          *)
(* interleaving of their requests, the registry document of the corpus      *)
(* lists both models in models and both doctpc fields in fields, each       *)
(* exactly once (under the name index_model registers, Model.name).         *)
(***************************************************************************)
C14_ConcurrentIndexModelKeepBoth ==
    \A w1 \in Pair : \A w2 \in Pair :
        (/\ w1 # w2
         /\ call[w1].op = "index_model" /\ call[w2].op = "index_model"
         /\ RanToEnd(call[w1]) /\ RanToEnd(call[w2])
         /\ call[w1].pre.indexed /\ call[w2].pre.indexed
         /\ call[w1].pre.quiet
         /\ call[w2].pre.seq = call[w1].pre.seq + 1
         /\ call[w1].arg # call[w2].arg
         /\ TrDtSet(call[w1].arg) = TrDtSet(call[w2].arg)) =>
            LET corpus == Lower(TrDtSet(call[w1].arg)) IN
            /\ RegMatchExact(corpus) # {}
            /\ \A r \in RegMatchExact(corpus) : \A w \in {w1, w2} :
                LET name == ModelSelfName(call[w].arg) IN
                /\ Count(r.models, name) = 1
                /\ Count(r.fields, DoctpcKey(name)) = 1

\* both index_model calls were between their registry lookup and their last
\* request at the same time, and both have returned
C14_Witness ==
    /\ \A w \in Pair : call[w].op = "index_model" /\ RanToEnd(call[w])
    /\ \A w \in Pair : call[w].pre.indexed
    /\ call[1].arg # call[2].arg
    /\ TrDtSet(call[1].arg) = TrDtSet(call[2].arg)
    /\ call[1].pre.quiet
    /\ call[2].pre.seq = call[1].pre.seq + 1
    /\ call[1].pre.registry = call[2].pre.registry


\* the corpus collections that exist
CorpusCollections == colls \cap {Lower(p) : p \in CorpusStems}

(***************************************************************************)
(* C15.  When no call is in progress, also after an index_corpus that an    *)
(* engine error or a timeout ended part-way, every corpus collection that   *)
(* exists is the corpus_name of a registry document.                        *)
(***************************************************************************)
C15_CorpusCollectionsRegistered ==
    Quiescent => \A c \in CorpusCollections : RegMatchExact(c) # {}


(***************************************************************************)
(* C16.  Once index_model is over for a model of an indexed corpus, whose   *)
(* collection it created and whose id list and doc-topic matrix differ in   *)
(* length, it has failed, the                                               *)
(* registry is as it was when the call started, and the call sent no update *)
(* to the registry or to the corpus collection.                             *)
(***************************************************************************)
C16_LengthMismatchWritesNothing ==
    \A w \in Workers :
        (/\ Over(w, "index_model")
         /\ call[w].pre.indexed
         /\ \E i \in 1..Len(call[w].sent) :
                call[w].sent[i] = Request("create", ModelName(call[w].arg), "")
         /\ Len(disk.ids) # disk.rows) =>
            /\ call[w].pc = "raised"
            /\ registry = call[w].pre.registry
            /\ \A i \in 1..Len(call[w].sent) :
                call[w].sent[i].verb = "update" =>
                    call[w].sent[i].coll \notin
                        {corpus_col, ModelCorpusName(call[w].arg)}

(***************************************************************************)
(* C17.  Once index_corpus is over for a manifest of more than one dataset, *)
(* the registry has no document for the corpus, the corpus has no indexed   *)
(* document, and the call sent no update request.                           *)
(***************************************************************************)
C17_MultiDatasetManifestRejected ==
    \A w \in Workers :
        (Over(w, "index_corpus") /\ disk.dtsets > 1) =>
            /\ RegMatchExact(Lower(call[w].arg)) = {}
            /\ Lower(call[w].arg) \notin hasDocs
            /\ \A i \in 1..Len(call[w].sent) : call[w].sent[i].verb # "update"


(***************************************************************************)
(* C18.  Once do_Q1, do_Q4, do_Q5 or do_Q9 is over, every request answered, *)
(* for a corpus collection that has no registry document or whose registry  *)
(* document does not list doctpc_<model>, the call has ended with status    *)
(* 404 and has sent no select to the corpus collection.                     *)
(***************************************************************************)
C18_UnknownCorpusOrModelIsNotFound ==
    \A w \in Workers :
        (/\ call[w].op \in QueryOps
         /\ call[w].pc \in {"returned", "raised"}
         /\ call[w].clean
         /\ corpus_col \in colls
         /\ \A r \in RegMatchExact(call[w].col) :
                DoctpcKey(call[w].arg) \notin Range(r.fields)) =>
            /\ call[w].pc = "returned"
            /\ call[w].ret = "404"
            /\ \A i \in 1..Len(call[w].sent) :
                call[w].sent[i].coll # call[w].col


(***************************************************************************)
(* SolrResp.from_requests_response over the replies of the engine.          *)
(***************************************************************************)
\* a reply: its body is JSON, XML or neither; it has a responseHeader (with
\* status), an error message, a collections list, a response part, or not
Replies ==
    {r \in [body : {"json", "xml", "other"}, header : BOOLEAN,
            status : {0, 400, 404, 500}, msg : BOOLEAN, collections : BOOLEAN,
            response : BOOLEAN] :
        /\ ~r.header => r.status = 0
        /\ r.body = "other" =>
                ~r.header /\ ~r.msg /\ ~r.collections /\ ~r.response}

SolrResp(status_code, text, data, results) ==
    [kind |-> "resp", status_code |-> status_code, text |-> text,
     data |-> data, results |-> results]

\* the exception that leaves from_requests_response
Raises(exc) == [kind |-> "raised", exc |-> exc]

\* try: resp = resp.json() ...; except: ET.fromstring(resp.text) ...
\* In the except branch resp is the decoded dict when the failure came after
\* resp.json(): it has no attribute text.
from_requests_response(resp) ==
    LET data == IF resp.collections THEN "collections" ELSE "[]"
        results == IF resp.response THEN "SolrResults" ELSE "{}"
    IN
    CASE resp.body = "json" ->
            IF resp.header /\ resp.status = 0
                THEN SolrResp(200, "", data, results)
            ELSE IF resp.header /\ resp.msg
                THEN SolrResp(resp.status, "msg", data, results)
            ELSE Raises("AttributeError")
      [] resp.body = "xml" ->
            IF ~resp.header
                THEN Raises("AttributeError")
            ELSE IF resp.status = 0
                THEN SolrResp(200, "", "[]", "{}")
            ELSE IF resp.msg
                THEN SolrResp(resp.status, "msg", "[]", "{}")
            ELSE Raises("AttributeError")
      [] OTHER -> Raises("ParseError")

InitResp ==
    /\ IngestionOff
    /\ SumOff
    /\ disk = OnDisk
    /\ fin \in Replies
    /\ fout = NoValue

\* _do_request: the reply of one request goes through from_requests_response
FromRequestsResponse ==
    /\ fout = NoValue
    /\ fout' = from_requests_response(fin)
    /\ UNCHANGED <<engineVars, call, ncalls, nfail, sumVars, disk, fin>>

\* the reply of the next request
NextReply ==
    /\ fout # NoValue
    /\ fin' \in Replies
    /\ fout' = NoValue
    /\ UNCHANGED <<engineVars, call, ncalls, nfail, sumVars, disk>>

NextResp == FromRequestsResponse \/ NextReply

SpecResp == InitResp /\ [][NextResp]_vars

(***************************************************************************)
(* C19.  Whatever the reply, from_requests_response returns a response      *)
(* object: with status 200 when responseHeader.status is 0, with the        *)
(* engine's status when it is not 0, and with status 400 and the raw body   *)
(* as text when the body is neither JSON nor XML or has no responseHeader.  *)
(***************************************************************************)
C19_EveryReplyGivesAResponse ==
    fout # NoValue =>
        /\ fout.kind = "resp"
        /\ (fin.header /\ fin.status = 0) => fout.status_code = 200
        /\ (fin.header /\ fin.status # 0) => fout.status_code = fin.status
        /\ (fin.body = "other" \/ ~fin.header) =>
                fout.status_code = 400 /\ fout.text = "raw"


(***************************************************************************)
(* The score normalisation of do_Q5 and do_Q12.                             *)
(***************************************************************************)
MaxSum == 5

\* the scale the payloads are written with
PayloadScale == 1000

\* a ^ b of Python on non-negative integers: bitwise exclusive or
RECURSIVE Xor(_, _)
Xor(a, b) ==
    IF a = 0 THEN b
    ELSE IF b = 0 THEN a
    ELSE (((a % 2) + (b % 2)) % 2) + (2 * Xor(a \div 2, b \div 2))

\* the score of the engine for two payload vectors of scale S: all values up
\* to S * S for the small scales, the two ends for the large one
RawScores(S) == IF S <= MaxSum THEN 0..(S * S) ELSE {0, S * S}

\* el['score'] *= (100/(self.max_sum^2)): the score as the fraction num / den,
\* ZeroDivisionError when max_sum ^ 2 is 0
Normalized(score, max_sum) ==
    IF Xor(max_sum, 2) = 0
        THEN Raises("ZeroDivisionError")
        ELSE [kind |-> "score", num |-> score * 100, den |-> Xor(max_sum, 2)]

ScoreInputs ==
    {[kind |-> "score", op |-> o, max_sum |-> S, score |-> x] :
        o \in {"do_Q5", "do_Q12"},
        S \in 1..MaxSum \cup {PayloadScale},
        x \in 0..(MaxSum * MaxSum) \cup {PayloadScale * PayloadScale}}

InitScore ==
    /\ IngestionOff
    /\ SumOff
    /\ disk = OnDisk
    /\ fin \in {i \in ScoreInputs : i.score \in RawScores(i.max_sum)}
    /\ fout = NoValue

\* step 6 of do_Q5 and of do_Q12 on one document of the results
NormalizeScore ==
    /\ fout = NoValue
    /\ fout' = Normalized(fin.score, fin.max_sum)
    /\ UNCHANGED <<engineVars, call, ncalls, nfail, sumVars, disk, fin>>

\* the next document
NextScore ==
    /\ fout # NoValue
    /\ fin' \in {i \in ScoreInputs : i.score \in RawScores(i.max_sum)}
    /\ fout' = NoValue
    /\ UNCHANGED <<engineVars, call, ncalls, nfail, sumVars, disk>>

NextNorm == NormalizeScore \/ NextScore

SpecScore == InitScore /\ [][NextNorm]_vars

(***************************************************************************)
(* C20.  The score do_Q5 and do_Q12 return for a raw score between 0 and    *)
(* S * S, S = max_sum, is the raw score times 100 / (S * S), and it lies    *)
(* between 0 and 100.                                                       *)
(***************************************************************************)
C20_ScoreIsPercentOfScaleSquared ==
    fout # NoValue =>
        /\ fout.kind = "score"
        /\ fin.score = 0 \/ fout.den = fin.max_sum * fin.max_sum
        /\ 0 <= fout.num
        /\ fout.num <= 100 * fout.den


(***************************************************************************)
(* do_Q5 on a corpus of two documents: the document asked for, d, and       *)
(* another one, e, with payloads over two topics.                           *)
(***************************************************************************)
\* the payloads t0|a t1|b of scale S, as the pair of weights
Payloads(S) == {<<a, S - a>> : a \in 0..S}

\* the score of {!vp f=doctpc_<model> vector="<payload>"} for a document:
\* the dot product of the weights
vp(x, y) == (x[1] * y[1]) + (x[2] * y[2])

RankInputs ==
    UNION {[kind : {"rank"}, max_sum : {S}, d : Payloads(S), e : Payloads(S)] :
                S \in 1..MaxSum}

\* what do_Q5 returns for d when the engine lists document first on top:
\* first and its raw score, the raw score of d, the normalized score of d
Q5Result(first, in) ==
    LET own == vp(in.d, in.d)
        top == IF first = "d" THEN own ELSE vp(in.e, in.d)
        n == Normalized(own, in.max_sum)
    IN
    IF n.kind = "raised"
        THEN n
        ELSE [kind |-> "docs", first |-> first, top |-> top, own |-> own,
              num |-> n.num, den |-> n.den]

\* the documents on top of the engine's result: sorted by score, either
\* document on equal scores
OnTop(in) ==
    {x \in {"d", "e"} :
        IF x = "d" THEN vp(in.d, in.d) >= vp(in.e, in.d)
                   ELSE vp(in.e, in.d) >= vp(in.d, in.d)}

InitRank ==
    /\ IngestionOff
    /\ SumOff
    /\ disk = OnDisk
    /\ fin \in RankInputs
    /\ fout = NoValue

\* steps 3 to 6 of do_Q5
DoQ5 ==
    /\ fout = NoValue
    /\ \E first \in OnTop(fin) : fout' = Q5Result(first, fin)
    /\ UNCHANGED <<engineVars, call, ncalls, nfail, sumVars, disk, fin>>

\* the next request
NextQ5 ==
    /\ fout # NoValue
    /\ fin' \in RankInputs
    /\ fout' = NoValue
    /\ UNCHANGED <<engineVars, call, ncalls, nfail, sumVars, disk>>

NextRank == DoQ5 \/ NextQ5

SpecRank == InitRank /\ [][NextRank]_vars

(***************************************************************************)
(* C21.  do_Q5 for a document d returns a result in which no document has a *)
(* raw score above that of d itself, and the normalized score of d is 100.  *)
(***************************************************************************)
C21_SelfSimilarityOnTop ==
    fout # NoValue =>
        /\ fout.kind = "docs"
        /\ fout.top <= fout.own
        /\ fout.num = 100 * fout.den


(***************************************************************************)
(* custom_start_and_rows, with the do_Q3 it runs, next to index_corpus and  *)
(* index_model.  fin holds the start and rows of the caller, fout the pair  *)
(* returned.                                                                *)
(***************************************************************************)
None == [t |-> "None"]

\* str(n) for the counts of the model
str(n) ==
    [t |-> "str",
     v |-> CASE n = 0 -> "0" [] n = 1 -> "1" [] n = 2 -> "2" [] OTHER -> "3"]

\* rows = results.hits: the number as it is
RowsAsHits(n) == [t |-> "int", v |-> n]

\* rows = str(numFound_dict['ndocs'])
RowsOf(n) == str(n)

\* start and rows as the request parser hands them on: a string or None
Supplied == {None, str(0), str(1)}

\* col of the callers: a lower-case collection name
RowCols == {Lower(p) : p \in CorpusStems} \cup {Lower(m) : m \in ModelStems}

\* numFound of q=*:* in col: the documents of the data file, or the topics
\* of the model, as many in the model
NumFound(col) == IF col \in hasDocs THEN Cardinality(DocIds) ELSE 0

\* line 457: start = str(0) when start is None
StartOf(start) == IF start = None THEN str(0) ELSE start

StartRows(w) ==
    /\ call[w].pc \in Ended
    /\ ncalls < MaxCalls
    /\ ncalls' = ncalls + 1
    /\ \E col \in RowCols :
        call' = [call EXCEPT ![w] =
                    NewCall("custom_start_and_rows", col, "cs_rows", call[w])]
    /\ \E start \in Supplied, rows \in Supplied :
        fin' = [kind |-> "rows", start |-> start, rows |-> rows]
    /\ fout' = NoValue
    /\ UNCHANGED <<engineVars, nfail, sumVars, disk>>

\* rows is given: return start, rows
RowsGiven(w) ==
    /\ At(w, "custom_start_and_rows", "cs_rows")
    /\ fin.rows # None
    /\ call' = [call EXCEPT ![w].pc = "returned"]
    /\ fout' = [kind |-> "pair", start |-> StartOf(fin.start), rows |-> fin.rows]
    /\ UNCHANGED <<engineVars, ncalls, nfail, sumVars, disk, fin>>

\* rows is None, do_Q3 step 1: check_is_corpus(col)
RowsQ3IsCorpus(w) ==
    /\ At(w, "custom_start_and_rows", "cs_rows")
    /\ fin.rows = None
    /\ \E o \in Outcomes :
        LET answered == o = "ok" /\ corpus_col \in colls
            corpus_lst == {r.corpus_name : r \in registry}
        IN
        Reads(w,
              IF ~answered THEN "raised"
              ELSE IF call[w].arg \in corpus_lst
                  THEN "q3_select" ELSE "q3_is_model",
              "None", Request("select", corpus_col, "*:*"), o)

\* do_Q3 step 1: check_is_model(col); doc["models"] raises for a registry
\* document without models, and do_Q3 returning None makes the unpacking in
\* custom_start_and_rows raise
RowsQ3IsModel(w) ==
    /\ At(w, "custom_start_and_rows", "q3_is_model")
    /\ \E o \in Outcomes :
        LET answered == o = "ok" /\ corpus_col \in colls
            models_lst == UNION {Range(r.models) : r \in registry}
        IN
        Reads(w,
              IF /\ answered
                 /\ \A r \in registry : r.models # <<>>
                 /\ call[w].arg \in models_lst
                  THEN "q3_select" ELSE "raised",
              "None", Request("select", corpus_col, "models"), o)

\* do_Q3 step 2 and lines 460-461: the count of col becomes rows
RowsQ3Select(w) ==
    /\ At(w, "custom_start_and_rows", "q3_select")
    /\ \E o \in Outcomes :
        LET col == call[w].arg
            counted == o = "ok" /\ col \in colls
        IN
        /\ call' = [call EXCEPT ![w] =
                After([call[w] EXCEPT
                            !.pc = IF counted THEN "returned" ELSE "raised"],
                      Request("select", col, "*:*"), o)]
        /\ Failed(o)
        /\ UNCHANGED <<engineVars, ncalls, sumVars>>
        /\ fout' = IF counted
                    THEN [kind |-> "pair", start |-> StartOf(fin.start),
                          rows |-> RowsOf(NumFound(col))]
                    ELSE fout
    /\ UNCHANGED <<disk, fin>>

\* calls left to the run: index_corpus, index_model and the query
MaxRowsCalls == 3

InitRows ==
    /\ colls = {}
    /\ schema = [c \in CollNames |-> {}]
    /\ registry = {}
    /\ hasDocs = {}
    /\ doctpc = {}
    /\ fold \in BOOLEAN
    /\ call = [w \in Workers |-> NoCall]
    /\ ncalls = MaxCalls - MaxRowsCalls
    /\ nfail = 0
    /\ SumOff
    /\ AuxOff

NextRows ==
    \E w \in Workers :
        \/ StartIndexCorpus(w)
        \/ IndexCorpusList(w)
        \/ IndexCorpusCreate(w)
        \/ IndexCorpusRegList(w)
        \/ IndexCorpusRegCreate(w)
        \/ IndexCorpusMaxId(w)
        \/ IndexCorpusReg(w)
        \/ IndexCorpusDocs(w)
        \/ StartIndexModel(w)
        \/ IndexModelList(w)
        \/ IndexModelCreate(w)
        \/ IndexModelQuery(w)
        \/ IndexModelReg(w)
        \/ IndexModelDoctpcField(w)
        \/ IndexModelSimField(w)
        \/ IndexModelDocs(w)
        \/ IndexModelTopics(w)
        \/ StartRows(w)
        \/ RowsGiven(w)
        \/ RowsQ3IsCorpus(w)
        \/ RowsQ3IsModel(w)
        \/ RowsQ3Select(w)

SpecRows == InitRows /\ [][NextRows]_vars

(***************************************************************************)
(* C22.  When custom_start_and_rows has returned, start is '0' if the       *)
(* caller gave none and the caller's value otherwise, rows is the caller's  *)
(* value if given and otherwise the number of documents of the collection   *)
(* as a string, counted by a select the call sent to it; both are strings.  *)
(***************************************************************************)
C22_StartAndRowsDefaults ==
    \A w \in Workers :
        At(w, "custom_start_and_rows", "returned") =>
            /\ fout.kind = "pair"
            /\ fout.start.t = "str" /\ fout.rows.t = "str"
            /\ fout.start = IF fin.start = None THEN str(0) ELSE fin.start
            /\ fin.rows # None => fout.rows = fin.rows
            /\ fin.rows = None =>
                /\ \E n \in 0..Cardinality(DocIds) :
                    /\ fout.rows = str(n)
                    /\ n = IF call[w].arg \in hasDocs
                            THEN Cardinality(DocIds) ELSE 0
                /\ \E i \in 1..Len(call[w].sent) :
                    call[w].sent[i] = Request("select", call[w].arg, "*:*")

C22_Witness ==
    \E w \in Workers :
        /\ At(w, "custom_start_and_rows", "returned")
        /\ fin.rows = None
        /\ fin.start = None
        /\ call[w].arg \in hasDocs


(***************************************************************************)
(* The payload string of get_doc_str_rpr, piece by piece: an entry          *)
(* "t<idx>|<val>" or a space.                                               *)
(***************************************************************************)
Entry(idx, val) == [c |-> "entry", topic |-> idx, weight |-> val]

Space == [c |-> " ", topic |-> 0, weight |-> 0]

\* the loop: rpr += "t" + str(idx) + "|" + str(val) + " " for val != 0
RECURSIVE Pieces(_, _)
Pieces(x, idx) ==
    IF x = <<>> THEN <<>>
    ELSE (IF Head(x) # 0 THEN <<Entry(idx, Head(x)), Space>> ELSE <<>>)
            \o Pieces(Tail(x), idx + 1)

\* rpr.rstrip()
RECURSIVE rstrip(_)
rstrip(rpr) ==
    IF rpr # <<>> /\ rpr[Len(rpr)] = Space
        THEN rstrip(SubSeq(rpr, 1, Len(rpr) - 1))
        ELSE rpr

\* the string as the loop leaves it, without the rstrip
doc_str_unstripped(x) == Pieces(x, 0)

\* the string get_doc_str_rpr returns for the vector x of sum_up_to
doc_str_rpr(x) == rstrip(Pieces(x, 0))

(***************************************************************************)
(* C23.  The payload string written for the vector sum_up_to returned has   *)
(* every topic at most once, no entry of weight 0, an entry at every odd    *)
(* place and one space at every even place, and ends with an entry.         *)
(***************************************************************************)
C23_PayloadStringWellFormed ==
    spc = "done" =>
        LET p == doc_str_rpr(sx) IN
        /\ \A i, j \in 1..Len(p) :
            (i # j /\ p[i].c = "entry" /\ p[j].c = "entry") =>
                p[i].topic # p[j].topic
        /\ \A i \in 1..Len(p) : p[i].c = "entry" => p[i].weight # 0
        /\ \A i \in 1..Len(p) : p[i].c = (IF i % 2 = 1 THEN "entry" ELSE " ")
        /\ p # <<>> => p[Len(p)].c = "entry"

\* a payload of two entries or more for a vector with a zero
C23_Witness ==
    /\ spc = "done"
    /\ Len(doc_str_rpr(sx)) >= 3
    /\ \E i \in 1..Len(sx) : sx[i] = 0


(***************************************************************************)
(* C24.  The vector sum_up_to returns keeps the order of the coordinates,   *)
(* whatever the choices of the loop: v_i > v_j implies x_i >= x_j.          *)
(***************************************************************************)
C24_OrderOfCoordinatesKept ==
    spc = "done" =>
        \A i, j \in 1..Len(sv) : sv[i] > sv[j] => sx[i] >= sx[j]


(***************************************************************************)
(* C25.  While the loop of sum_up_to has increments to make, every index i  *)
(* with v_i > 0 whose v_i * max_sum was rounded down is one the loop can    *)
(* choose, those with a truncated value of 0 included.                      *)
(***************************************************************************)
C25_RoundedDownCanBeChosen ==
    (spc = "loop" /\ SumSeq(sx) < smax) =>
        \A i \in 1..Len(sv) :
            (sv[i] > 0 /\ (sv[i] * smax) % sd # 0) => i \in pos_idx(sx)


(***************************************************************************)
(* C26.  The requests of one index_model call that change the engine are    *)
(* sent in this order, each after the answer to the one before: create the  *)
(* model collection, update the registry, add doctpc_<model> and then       *)
(* sim_<model> to the schema of the corpus collection, update the documents *)
(* of the corpus collection, update the model collection with the topics.   *)
(***************************************************************************)
C26_IndexModelRequestOrder ==
    \A w \in Workers :
        call[w].op = "index_model" =>
            LET sent == call[w].sent
                step(r) ==
                    CASE r.verb = "create" -> 1
                      [] r.verb = "update" /\ r.what = "topics" -> 6
                      [] r.verb = "update" /\ r.coll = corpus_col -> 2
                      [] r.verb = "update" -> 5
                      [] r.verb = "add-field"
                            /\ r.what = DoctpcKey(ModelName(call[w].arg)) -> 3
                      [] r.verb = "add-field" -> 4
                      [] OTHER -> 0
            IN
            \A i, j \in 1..Len(sent) :
                (i < j /\ step(sent[i]) > 0 /\ step(sent[j]) > 0) =>
                    step(sent[i]) < step(sent[j])

\* an index_model that sent all six
C26_Witness ==
    \E w \in Workers :
        /\ call[w].op = "index_model"
        /\ RanToEnd(call[w])
        /\ Cardinality({i \in 1..Len(call[w].sent) :
                call[w].sent[i].verb \in {"create", "update", "add-field"}}) = 6


(***************************************************************************)
(* C27.  sum_up_to never fails for lack of an index to increment, whatever  *)
(* the unit-sum vector and the scale: the loop always has a non-zero entry  *)
(* to choose from while units are missing.                                  *)
(***************************************************************************)
C27_SumUpToNeverFails ==
    /\ spc # "raised"
    /\ (spc = "loop" /\ KeepsLooping(sx, smax)) => pos_idx(sx) # {}


(***************************************************************************)
(* C28.  Every request of an index_model call that carries the name of the  *)
(* model carries the lower-case stem of the model path: the collection      *)
(* created and filled with the topics, the schema fields, the model and     *)
(* field added to the registry document, the field of the document updates. *)
(***************************************************************************)
C28_OneModelNameInIndexModel ==
    \A w \in Workers :
        call[w].op = "index_model" =>
            LET name == Lower(call[w].arg) IN
            \A i \in 1..Len(call[w].sent) :
                LET r == call[w].sent[i] IN
                /\ r.verb = "create" => r.coll = name
                /\ (r.verb = "update" /\ r.what = "topics") => r.coll = name
                /\ (r.verb = "update" /\ r.coll = corpus_col) => r.what = name
                /\ r.verb = "add-field" =>
                        r.what \in {DoctpcKey(name), SimKey(name)}
                /\ (r.verb = "update" /\ r.coll # corpus_col
                        /\ r.what # "topics") => r.what = DoctpcKey(name)

(***************************************************************************)
(* C29.  For a model of an indexed corpus, every request of index_model and *)
(* delete_model that names the corpus names it by the lower-case stem under *)
(* which index_corpus created the collection and the registry document: the *)
(* registry lookup, the schema changes and the document updates.            *)
(***************************************************************************)
C29_ModelCallsNameTheCorpusCollection ==
    \A w \in Workers :
        (/\ call[w].op \in {"index_model", "delete_model"}
         /\ Indexed(TrDtSet(call[w].arg))) =>
            LET name == Lower(TrDtSet(call[w].arg)) IN
            \A i \in 1..Len(call[w].sent) :
                LET r == call[w].sent[i] IN
                /\ r.verb = "select" => r.what = name
                /\ r.verb \in {"add-field", "delete-field"} => r.coll = name
                /\ (r.verb = "update" /\ r.coll # corpus_col
                        /\ r.what # "topics") => r.coll = name


(***************************************************************************)
(* SolrClient.index_documents on a list of MaxDocs documents at most, the   *)
(* documents named by their index.  fout holds the locals of the loop and   *)
(* the batches handed to index_batch.                                       *)
(***************************************************************************)
MaxDocs == 6
MaxBatch == 3

BatchInputs == [kind : {"batch"}, len : 0..MaxDocs, batch_size : 1..MaxBatch]

InitBatch ==
    /\ IngestionOff
    /\ SumOff
    /\ disk = OnDisk
    /\ fin \in BatchInputs
    /\ fout = [kind |-> "loop", pc |-> "for", index |-> 0,
               docs_batch |-> <<>>, batches |-> <<>>]

\* index % batch_size == 0 and index != 0
BatchIsFull(index, batch_size) == index % batch_size = 0 /\ index # 0

\* one round of the for loop: append the document, index the batch when the
\* test says so
BatchAppend ==
    /\ fout.pc = "for"
    /\ fout.index < fin.len
    /\ LET docs_batch == Append(fout.docs_batch, fout.index) IN
        fout' = IF BatchIsFull(fout.index, fin.batch_size)
                THEN [fout EXCEPT !.index = @ + 1, !.docs_batch = <<>>,
                                  !.batches = Append(@, docs_batch)]
                ELSE [fout EXCEPT !.index = @ + 1, !.docs_batch = docs_batch]
    /\ UNCHANGED <<engineVars, call, ncalls, nfail, sumVars, disk, fin>>

\* after the loop: if docs_batch, index the rest
BatchRest ==
    /\ fout.pc = "for"
    /\ fout.index = fin.len
    /\ fout' = IF fout.docs_batch # <<>>
                THEN [fout EXCEPT !.pc = "done", !.docs_batch = <<>>,
                                  !.batches = Append(@, fout.docs_batch)]
                ELSE [fout EXCEPT !.pc = "done"]
    /\ UNCHANGED <<engineVars, call, ncalls, nfail, sumVars, disk, fin>>

NextBatch == BatchAppend \/ BatchRest

SpecBatch == InitBatch /\ [][NextBatch]_vars

(***************************************************************************)
(* C30.  No batch that index_documents hands to index_batch holds more than *)
(* batch_size documents.                                                    *)
(***************************************************************************)
C30_BatchesWithinBatchSize ==
    \A i \in 1..Len(fout.batches) : Len(fout.batches[i]) <= fin.batch_size

====
